---- MODULE Spec2Model ----
(***************************************************************************)
(* The Lowdown content pipeline: the Articles and Snapshots tables of      *)
(* database/db_handler.py, the FastAPI handlers of main.py that write      *)
(* them, and the curation actions of admin_app.py.                         *)
(*                                                                         *)
(* The two tables never interact, so a behaviour follows one table: kind   *)
(* is drawn in Init and selects the Articles or the Snapshots code.        *)
(*                                                                         *)
(* Every db_handler call opens its own connection and commits once, so a   *)
(* call is one step. An operation made of several calls, or of a read      *)
(* followed by a write outside a transaction, is also modelled in steps:   *)
(* inflight holds what each worker has read and has left to write.         *)
(***************************************************************************)
EXTENDS Integers, FiniteSets, Sequences, TLC

VARIABLES kind, rows, resp, inflight

vars == <<kind, rows, resp, inflight>>

\* ---- bounds -------------------------------------------------------------
\* rows and urls of the curation runs
MaxRows == 3
MaxUrl == 3
\* rows and urls of the store runs, which also rewrite urls
StoreRows == 2
StoreUrl == 2
\* rows and urls of the lifecycle runs, which follow every status and text
LifeRows == 1
LifeUrl == 1
\* rows (and urls) of the neighbour-swap runs and of the list runs
SwapRows == 3
\* rows (and urls) of the generation runs
GenRows == 1
\* ids of the runs that name missing rows
NamedRows == 2
\* rows of the runs that update several fields
UpdRows == 2

\* positions a bounded run may reach: one past the row count
MaxPos == MaxRows + 1

Kinds == {"Articles", "Snapshots"}
Urls == 1..MaxUrl
IdSpace == 1..MaxRows

\* ---- values -------------------------------------------------------------
NULL == "NULL"
None == 0

\* the statuses of the lifecycle table
Enumerated ==
    {"pending", "scraping_failed", "ai_failed", "content_failed",
     "summarized", "highlighted", "accepted", "archived"}

\* the status strings the curation views send in a PATCH, and one string
\* that no view sends (ArticleUpdate.status is Optional[str]: any string)
StatusInputs(k) ==
    {"accepted", IF k = "Articles" THEN "summarized" ELSE "highlighted",
     "archived", "draft"}

\* ---- table helpers ------------------------------------------------------
Ids(t) == DOMAIN t

MaxOf(S) == IF S = {} THEN 0 ELSE CHOOSE m \in S : \A x \in S : x <= m

\* rows WHERE status != 'archived'
ActiveIds(t) == {i \in Ids(t) : t[i].status # "archived"}

\* rows WHERE url = ?
WithUrl(t, u) == {i \in Ids(t) : t[i].url = u}

\* SELECT MAX(position) ... WHERE status != 'archived', None read as 0
MaxActivePos(t) == MaxOf({t[i].position : i \in ActiveIds(t)})

\* SELECT MAX(position) FROM Articles, None read as 0
MaxAnyPos(t) == MaxOf({t[i].position : i \in Ids(t)})

\* the rowid SQLite gives an inserted row
NewId(t) == MaxOf(Ids(t)) + 1

\* ORDER BY position ASC (rowid breaks a tie): the number of rows before i
Rank(t, S, i) ==
    Cardinality({j \in S : t[j].position < t[i].position
                           \/ (t[j].position = t[i].position /\ j < i)})

\* fetch_all_articles without its WHERE clause
fetch_all_Unfiltered(t) ==
    [n \in 1..Cardinality(Ids(t)) |->
        CHOOSE i \in Ids(t) : Rank(t, Ids(t), i) = n - 1]

\* the id list of fetch_all_articles, in order
fetch_all(t) ==
    [n \in 1..Cardinality(ActiveIds(t)) |->
        CHOOSE i \in ActiveIds(t) : Rank(t, ActiveIds(t), i) = n - 1]

\* ORDER BY position ASC, created_at DESC: among equal positions the row
\* created later, which has the larger id, comes first
RankSnapshot(t, S, i) ==
    Cardinality({j \in S : t[j].position < t[i].position
                           \/ (t[j].position = t[i].position /\ j > i)})

\* the id list of fetch_all_snapshots, in order
fetch_all_snapshots(t) ==
    [n \in 1..Cardinality(ActiveIds(t)) |->
        CHOOSE i \in ActiveIds(t) : RankSnapshot(t, ActiveIds(t), i) = n - 1]

\* GET /articles, GET /snapshots
list_active(k, t) == IF k = "Articles" THEN fetch_all(t) ELSE fetch_all_snapshots(t)

\* a schema without the constraint
UrlFree_Unconstrained(t, i, u) == TRUE

\* the schema's UNIQUE constraint on url: may row i take url u?
UrlFree(t, i, u) == \A j \in Ids(t) \ {i} : t[j].url # u

NewRow(u, p) ==
    [url |-> u, status |-> "pending", position |-> p,
     summary |-> NULL, original_content |-> NULL]

Insert(t, i, r) == [j \in Ids(t) \cup {i} |-> IF j = i THEN r ELSE t[j]]

Remove(t, i) == [j \in Ids(t) \ {i} |-> t[j]]

\* ---- db_handler: create -------------------------------------------------
\* each handler yields the table after it and what it returns

\* add_article without the test of the existing row's status
add_article_AlwaysRevive(t, u) ==
    IF WithUrl(t, u) # {}
    THEN LET e == CHOOSE i \in WithUrl(t, u) : TRUE IN
         [rows |-> [t EXCEPT ![e].status = "pending",
                             ![e].position = MaxActivePos(t) + 1],
          ret |-> e]
    ELSE LET i == NewId(t) IN
         [rows |-> Insert(t, i, NewRow(u, MaxAnyPos(t) + 1)), ret |-> i]

add_article(t, u) ==
    IF WithUrl(t, u) # {}
    THEN LET e == CHOOSE i \in WithUrl(t, u) : TRUE IN
         IF t[e].status = "archived"
         THEN [rows |-> [t EXCEPT ![e].status = "pending",
                                  ![e].position = MaxActivePos(t) + 1],
               ret |-> e]
         ELSE [rows |-> t, ret |-> None]
    ELSE LET i == NewId(t) IN
         IF UrlFree(t, i, u)
         THEN [rows |-> Insert(t, i, NewRow(u, MaxAnyPos(t) + 1)), ret |-> i]
         ELSE [rows |-> t, ret |-> None]

\* add_snapshot whose un-archive forgets to reset the status
add_snapshot_KeepStatus(t, u) ==
    IF WithUrl(t, u) # {}
    THEN LET e == CHOOSE i \in WithUrl(t, u) : TRUE IN
         IF t[e].status = "archived"
         THEN [rows |-> [j \in Ids(t) |->
                           IF t[j].url = u
                           THEN [t[j] EXCEPT !.position = 1]
                           ELSE IF t[j].position >= 1
                                THEN [t[j] EXCEPT !.position = @ + 1]
                                ELSE t[j]],
               ret |-> e]
         ELSE [rows |-> t, ret |-> None]
    ELSE LET i == NewId(t) IN
         [rows |-> Insert(t, i, NewRow(u, MaxActivePos(t) + 1)), ret |-> i]

add_snapshot(t, u) ==
    IF WithUrl(t, u) # {}
    THEN LET e == CHOOSE i \in WithUrl(t, u) : TRUE IN
         IF t[e].status = "archived"
         THEN [rows |-> [j \in Ids(t) |->
                           IF t[j].url = u
                           THEN [t[j] EXCEPT !.status = "pending", !.position = 1]
                           ELSE IF t[j].position >= 1
                                THEN [t[j] EXCEPT !.position = @ + 1]
                                ELSE t[j]],
               ret |-> e]
         ELSE [rows |-> t, ret |-> None]
    ELSE LET i == NewId(t) IN
         IF UrlFree(t, i, u)
         THEN [rows |-> Insert(t, i, NewRow(u, MaxActivePos(t) + 1)), ret |-> i]
         ELSE [rows |-> t, ret |-> None]

add_item(k, t, u) == IF k = "Articles" THEN add_article(t, u) ELSE add_snapshot(t, u)

\* ---- db_handler: update -------------------------------------------------
\* upd is a partial row: the keys the caller supplied
Whitelist == {"url", "status", "position", "summary", "original_content"}

\* update_article with no whitelist: every supplied key is written
ApplyUpdate_NoWhitelist(r, upd) ==
    [f \in DOMAIN r \cup DOMAIN upd |-> IF f \in DOMAIN upd THEN upd[f] ELSE r[f]]

ApplyUpdate(r, upd) ==
    [f \in DOMAIN r |-> IF f \in DOMAIN upd /\ f \in Whitelist THEN upd[f] ELSE r[f]]

\* the update_data of the runs that update several fields: one field, two
\* fields, a key outside the whitelist alone and beside a whitelisted key
UpdateInputs ==
    { [status |-> "accepted"],
      [summary |-> "edited"],
      [status |-> "accepted", summary |-> "edited"],
      [created_at |-> "never"],
      [summary |-> "edited", created_at |-> "never"] }

\* update_article without the test of cursor.rowcount
update_item_NoRowcount(t, i, upd) ==
    IF i \notin Ids(t) THEN [rows |-> t, ret |-> i]
    ELSE IF "url" \in DOMAIN upd /\ ~UrlFree(t, i, upd.url)
         THEN [rows |-> t, ret |-> None]
         ELSE [rows |-> [t EXCEPT ![i] = ApplyUpdate(t[i], upd)], ret |-> i]

update_item(t, i, upd) ==
    IF i \notin Ids(t) THEN [rows |-> t, ret |-> None]
    ELSE IF "url" \in DOMAIN upd /\ ~UrlFree(t, i, upd.url)
         THEN [rows |-> t, ret |-> None]
         ELSE [rows |-> [t EXCEPT ![i] = ApplyUpdate(t[i], upd)], ret |-> i]

\* get_article_by_id, get_snapshot_by_id: the row's id, None without a row
get_item(t, i) == IF i \in Ids(t) THEN i ELSE None

\* ---- db_handler: delete -------------------------------------------------
delete_article(t, i) ==
    IF i \notin Ids(t) THEN [rows |-> t, ret |-> FALSE]
    ELSE LET d == Remove(t, i) IN
         [rows |-> [j \in Ids(d) |->
                      IF j \in ActiveIds(d)
                      THEN [d[j] EXCEPT !.position = Rank(d, ActiveIds(d), j) + 1]
                      ELSE d[j]],
          ret |-> TRUE]

delete_snapshot(t, i) ==
    IF i \notin Ids(t) THEN [rows |-> t, ret |-> FALSE]
    ELSE LET d == Remove(t, i)
             deleted_position == t[i].position IN
         [rows |-> [j \in Ids(d) |->
                      IF deleted_position # 0 /\ d[j].position > deleted_position
                      THEN [d[j] EXCEPT !.position = @ - 1]
                      ELSE d[j]],
          ret |-> TRUE]

delete_item(k, t, i) == IF k = "Articles" THEN delete_article(t, i) ELSE delete_snapshot(t, i)

\* ---- admin_app: move_article -------------------------------------------
Swap(s, a, b) == [n \in DOMAIN s |-> IF n = a THEN s[b] ELSE IF n = b THEN s[a] ELSE s[n]]

IndexOf(s, x) == CHOOSE n \in DOMAIN s : s[n] = x

\* move_article without the test of current_index: ordered_ids[-1] is the
\* last element, so the first item swaps with the last
MovedOrder_NoBoundary(t, i, dir) ==
    LET ordered_ids == fetch_all(t) IN
    IF i \notin ActiveIds(t) THEN <<>>
    ELSE LET cur == IndexOf(ordered_ids, i) IN
         IF dir = "up"
         THEN Swap(ordered_ids, cur, IF cur > 1 THEN cur - 1 ELSE Len(ordered_ids))
         ELSE IF dir = "down" /\ cur < Len(ordered_ids) THEN Swap(ordered_ids, cur, cur + 1)
         ELSE <<>>

\* the id order move_article writes back, or <<>> when it returns early
MovedOrder(t, i, dir) ==
    LET ordered_ids == fetch_all(t) IN
    IF i \notin ActiveIds(t) THEN <<>>
    ELSE LET cur == IndexOf(ordered_ids, i) IN
         IF dir = "up" /\ cur > 1 THEN Swap(ordered_ids, cur, cur - 1)
         ELSE IF dir = "down" /\ cur < Len(ordered_ids) THEN Swap(ordered_ids, cur, cur + 1)
         ELSE <<>>

\* for index, an_id in enumerate(ordered_ids): update_article(an_id, position=index)
move_article(t, i, dir) ==
    LET o == MovedOrder(t, i, dir) IN
    IF o = <<>> THEN t
    ELSE [j \in Ids(t) |->
            IF \E n \in DOMAIN o : o[n] = j
            THEN [t[j] EXCEPT !.position = IndexOf(o, j) - 1]
            ELSE t[j]]

\* PATCH /articles/{id}/position with new_position p, as the card view sends
\* it: main.py registers no route of that path, the request is answered 404
patch_position(t, i, p) == [rows |-> t, code |-> 404]

\* ---- main.py: acquire and summarize -------------------------------------
\* summary holds an article's summary or a snapshot's highlight; the texts
\* are named by what produced them
ScrapeOutcomes == {"ok", "none", "raises"}

\* the generation call: a well-formed answer, an answer without the HEADLINE
\* or SUMMARY_BODY field, an error of the completion call, an error while
\* the client is built
AiOutcomes == {"ok", "missing_fields", "error_text", "raises"}

\* a get_ai_summary that answers its headline as the summary body
AiText_Headline(ai) == "ai_title"

\* get_ai_summary answers a dict also when the completion call failed or
\* the fields are missing; it raises only before its try block
AiText(ai) ==
    IF ai = "ok" THEN "ai_summary"
    ELSE IF ai = "missing_fields" THEN "Could not generate summary body."
    ELSE "ai_error_text"

\* the manual_content strings of a request
ManualInputs == {"", " ", " a ", "a b"}

\* a strip that keeps the surrounding blanks
strip_Identity(s) == s

\* str.strip() on these strings
strip(s) ==
    IF s \in {"", " "} THEN ""
    ELSE IF s = " a " THEN "a"
    ELSE s

\* each endpoint yields the table after it, its status code and the adapters
\* it called

\* POST /summarize without the test of the scraped content
summarize_article_NoScrapeCheck(t, i, scrape, ai) ==
    IF i \notin Ids(t) THEN [rows |-> t, code |-> 404, calls |-> {}]
    ELSE IF ai = "raises"
    THEN [rows |-> update_item(t, i, [status |-> "ai_failed",
                                      summary |-> "AI service error"]).rows,
          code |-> 500, calls |-> {"scraper", "ai"}]
    ELSE [rows |-> update_item(t, i, [summary |-> AiText(ai),
                                      original_content |-> NULL,
                                      status |-> "summarized"]).rows,
          code |-> 200, calls |-> {"scraper", "ai"}]

\* POST /summarize
summarize_article(t, i, scrape, ai) ==
    IF i \notin Ids(t) THEN [rows |-> t, code |-> 404, calls |-> {}]
    ELSE IF scrape # "ok"
    THEN \* no content: a first update_article records 'No content found at
         \* URL.', then the 400 raised for it is caught by the same try and
         \* recorded by a second update_article as a scraping error
         LET noted == IF scrape = "none"
                      THEN update_item(t, i, [status |-> "scraping_failed",
                                              summary |-> "No content found at URL."]).rows
                      ELSE t IN
         [rows |-> update_item(noted, i, [status |-> "scraping_failed",
                                          summary |-> "Scraping error"]).rows,
          code |-> 500, calls |-> {"scraper"}]
    ELSE IF ai = "raises"
    THEN [rows |-> update_item(t, i, [status |-> "ai_failed",
                                      summary |-> "AI service error"]).rows,
          code |-> 500, calls |-> {"scraper", "ai"}]
    ELSE [rows |-> update_item(t, i, [summary |-> AiText(ai),
                                      original_content |-> "scraped",
                                      status |-> "summarized"]).rows,
          code |-> 200, calls |-> {"scraper", "ai"}]

\* POST /summarize-manual
summarize_article_manual(t, i, manual_content, ai) ==
    LET content == strip(manual_content) IN
    IF i \notin Ids(t) THEN [rows |-> t, code |-> 404, calls |-> {}]
    ELSE IF content = ""
    THEN [rows |-> update_item(t, i, [status |-> "content_failed",
                                      summary |-> "No manual content provided."]).rows,
          code |-> 400, calls |-> {}]
    ELSE IF ai = "raises"
    THEN [rows |-> update_item(t, i, [status |-> "ai_failed",
                                      summary |-> "AI service error"]).rows,
          code |-> 500, calls |-> {"ai"}]
    ELSE [rows |-> update_item(t, i, [summary |-> AiText(ai),
                                      original_content |-> content,
                                      status |-> "summarized"]).rows,
          code |-> 200, calls |-> {"ai"}]

\* UPDATE Snapshots SET highlight, original_content, status = 'highlighted'
update_snapshot_highlight(t, i, highlight, content) ==
    update_item(t, i, [summary |-> highlight, original_content |-> content,
                       status |-> "highlighted"]).rows

\* POST /highlight: a failed scrape answers 400 and writes nothing; an error
\* of the completion call leaves its text as the highlight; an error while
\* the client is built answers 500 and writes nothing
highlight_snapshot(t, i, scrape, ai) ==
    IF i \notin Ids(t) THEN [rows |-> t, code |-> 404, calls |-> {}]
    ELSE IF scrape # "ok" THEN [rows |-> t, code |-> 400, calls |-> {"scraper"}]
    ELSE IF ai = "raises" THEN [rows |-> t, code |-> 500, calls |-> {"scraper", "ai"}]
    ELSE [rows |-> update_snapshot_highlight(t, i, AiText(ai), "scraped"),
          code |-> 200, calls |-> {"scraper", "ai"}]

\* POST /highlight-manual
highlight_snapshot_manual(t, i, manual_content, ai) ==
    LET content == strip(manual_content) IN
    IF i \notin Ids(t) THEN [rows |-> t, code |-> 404, calls |-> {}]
    ELSE IF content = "" THEN [rows |-> t, code |-> 400, calls |-> {}]
    ELSE IF ai = "raises" THEN [rows |-> t, code |-> 500, calls |-> {"ai"}]
    ELSE [rows |-> update_snapshot_highlight(t, i, AiText(ai), content),
          code |-> 200, calls |-> {"ai"}]

generate(k, t, i, scrape, ai) ==
    IF k = "Articles" THEN summarize_article(t, i, scrape, ai)
    ELSE highlight_snapshot(t, i, scrape, ai)

generate_manual(k, t, i, manual_content, ai) ==
    IF k = "Articles" THEN summarize_article_manual(t, i, manual_content, ai)
    ELSE highlight_snapshot_manual(t, i, manual_content, ai)

\* ---- admin_app: batch actions -------------------------------------------
PendingIds(t) == {i \in ActiveIds(t) : t[i].status = "pending"}

AcceptedIds(t) == {i \in ActiveIds(t) : t[i].status = "accepted"}

\* what one request of a batch meets: the API answers after a good or a
\* failed scrape, or the request itself raises (API unreachable)
BatchOutcomes == {"ok", "none", "unreachable"}

\* one pass of the "Summarize All Pending" loop over the ids todo, in
\* ascending list order; f gives each item's outcome
RECURSIVE batch_summarize(_, _, _, _)
batch_summarize(k, t, todo, f) ==
    IF todo = <<>> THEN t
    ELSE LET i == Head(todo)
             after ==
                 IF f[i] = "unreachable"
                 THEN IF k = "Articles"
                      THEN update_item(t, i, [status |-> "summarization_failed"]).rows
                      ELSE t
                 ELSE generate(k, t, i, f[i], "ok").rows
         IN batch_summarize(k, after, Tail(todo), f)

\* the ids of a list that satisfy a filter, in list order
RECURSIVE Filter(_, _)
Filter(s, S) ==
    IF s = <<>> THEN <<>>
    ELSE IF Head(s) \in S THEN <<Head(s)>> \o Filter(Tail(s), S)
         ELSE Filter(Tail(s), S)

\* "Archive Articles & Clear", "Archive All Accepted Snapshots"
RECURSIVE archive_all(_, _)
archive_all(t, todo) ==
    IF todo = <<>> THEN t
    ELSE archive_all(update_item(t, Head(todo), [status |-> "archived"]).rows, Tail(todo))

\* apple_article_view: one PATCH per selected id, the loop returns at the
\* first answer that is not 200
RECURSIVE bulk_update_status(_, _, _)
bulk_update_status(t, article_ids, new_status) ==
    IF article_ids = <<>> THEN t
    ELSE LET r == update_item(t, Head(article_ids), [status |-> new_status]) IN
         IF r.ret = None THEN t
         ELSE bulk_update_status(r.rows, Tail(article_ids), new_status)

\* ---- admin_app: the export texts -------------------------------------------
\* a text is the sequence of the strings appended to it
Separator == "\n\n---\n\n"

SnapshotSeparator == "\n\n"

\* (row.get('summary') or '').strip()
format_summary_for_export(row) == IF row.summary = NULL THEN "" ELSE strip(row.summary)

\* final_content += format_summary_for_export(article) + "\n\n---\n\n"
RECURSIVE export_articles(_, _)
export_articles(t, accepted_articles) ==
    IF accepted_articles = <<>> THEN <<>>
    ELSE <<format_summary_for_export(t[Head(accepted_articles)]), Separator>>
             \o export_articles(t, Tail(accepted_articles))

\* if snapshot.get('highlight'): snapshot_content += highlight + "\n\n"
RECURSIVE snapshot_content(_, _)
snapshot_content(t, accepted_snapshots) ==
    IF accepted_snapshots = <<>> THEN <<>>
    ELSE (IF t[Head(accepted_snapshots)].summary \in {NULL, ""} THEN <<>>
          ELSE <<t[Head(accepted_snapshots)].summary, SnapshotSeparator>>)
             \o snapshot_content(t, Tail(accepted_snapshots))

\* snapshot_content.strip(): the text without the blank lines that end it
export_snapshots(t, accepted_snapshots) ==
    LET c == snapshot_content(t, accepted_snapshots) IN
    IF c = <<>> THEN <<>> ELSE SubSeq(c, 1, Len(c) - 1)

\* the text area of the export tab
export(k, t) ==
    LET accepted == Filter(list_active(k, t), AcceptedIds(t)) IN
    IF k = "Articles" THEN export_articles(t, accepted) ELSE export_snapshots(t, accepted)

\* ---- the state machine ---------------------------------------------------
\* the last response: the operation, the id and status code it answered,
\* the adapters it called, the list it returned and, for a generation
\* request, the status the row had when the request arrived
Resp(op, id, code) ==
    [op |-> op, id |-> id, code |-> code, calls |-> {}, body |-> <<>>, was |-> NULL]

\* the status of row i, NULL when there is no such row
StatusOf(t, i) == IF i \in Ids(t) THEN t[i].status ELSE NULL

NoResp == Resp("none", None, 0)

\* two of the threads and processes that call db_handler at once: the
\* threadpool of the API runs its handlers side by side, and the admin
\* application is a process of its own
Workers == {"first", "second"}

\* a worker between operations; within one, what it read (the id order of
\* a move and the index of its loop, the url and the position computed for
\* an insert) and the table as it was when the operation began
Idle == [op |-> "idle", ordered_ids |-> <<>>, index |-> 0, url |-> 0, position |-> 0,
         before |-> <<>>]

Init ==
    /\ kind \in Kinds
    /\ rows = [i \in {} |-> NewRow(1, 1)]
    /\ resp = NoResp
    /\ inflight = [w \in Workers |-> Idle]

\* what a bounded run may hold
InBounds(t) ==
    /\ Cardinality(Ids(t)) <= MaxRows
    /\ \A i \in Ids(t) : t[i].position <= MaxPos /\ i \in IdSpace

\* POST /articles, POST /snapshots
Create(u) ==
    LET r == add_item(kind, rows, u) IN
    /\ InBounds(r.rows)
    /\ rows' = r.rows
    /\ resp' = Resp("create", r.ret,
                    IF r.ret # None THEN 201
                    ELSE IF kind = "Articles" THEN 409 ELSE 500)
    /\ UNCHANGED <<kind, inflight>>

\* GET /articles/{id}, GET /snapshots/{id}
Get(i) ==
    LET ret == get_item(rows, i) IN
    /\ resp' = [Resp("get", ret, IF ret = None THEN 404 ELSE 200)
                    EXCEPT !.body = IF ret = None THEN <<>> ELSE <<rows[ret]>>]
    /\ UNCHANGED <<kind, rows, inflight>>

\* PATCH /articles/{id}, PATCH /snapshots/{id} with a status
PatchStatus(i, s) ==
    LET r == update_item(rows, i, [status |-> s]) IN
    /\ rows' = r.rows
    /\ resp' = Resp("patch", r.ret, IF r.ret = None THEN 404 ELSE 200)
    /\ UNCHANGED <<kind, inflight>>

\* PATCH /articles/{id}, PATCH /snapshots/{id} with a url
PatchUrl(i, u) ==
    LET r == update_item(rows, i, [url |-> u]) IN
    /\ rows' = r.rows
    /\ resp' = Resp("patch", r.ret, IF r.ret = None THEN 404 ELSE 200)
    /\ UNCHANGED <<kind, inflight>>

\* PATCH /articles/{id}, PATCH /snapshots/{id} with the update_data upd
Patch(i, upd) ==
    LET r == update_item(rows, i, upd) IN
    /\ rows' = r.rows
    /\ resp' = Resp("update", r.ret, IF r.ret = None THEN 404 ELSE 200)
    /\ UNCHANGED <<kind, inflight>>

\* DELETE /articles/{id}, DELETE /snapshots/{id}
Delete(i) ==
    LET r == delete_item(kind, rows, i) IN
    /\ rows' = r.rows
    /\ resp' = Resp("delete", None, IF r.ret THEN 204 ELSE 404)
    /\ UNCHANGED <<kind, inflight>>

\* GET /articles, GET /snapshots
List ==
    /\ resp' = [Resp("list", None, 200) EXCEPT !.body = list_active(kind, rows)]
    /\ UNCHANGED <<kind, rows, inflight>>

\* the up and down buttons of the article list; no response, the id and
\* the direction of the click are kept
Move(i, dir) ==
    /\ kind = "Articles"
    /\ rows' = move_article(rows, i, dir)
    /\ resp' = Resp(dir, i, 0)
    /\ UNCHANGED <<kind, inflight>>

\* the up and down buttons of the card view: a request for position p
MoveTo(i, p) ==
    LET r == patch_position(rows, i, p) IN
    /\ kind = "Articles"
    /\ rows' = r.rows
    /\ resp' = Resp("move_to", None, r.code)
    /\ UNCHANGED <<kind, inflight>>

\* POST /summarize, POST /highlight
Generate(i, scrape, ai) ==
    LET r == generate(kind, rows, i, scrape, ai) IN
    /\ rows' = r.rows
    /\ resp' = [Resp("generate", IF r.code = 200 THEN i ELSE None, r.code)
                    EXCEPT !.calls = r.calls, !.was = StatusOf(rows, i)]
    /\ UNCHANGED <<kind, inflight>>

\* POST /summarize-manual, POST /highlight-manual
GenerateManual(i, manual_content, ai) ==
    LET r == generate_manual(kind, rows, i, manual_content, ai) IN
    /\ rows' = r.rows
    /\ resp' = [Resp("manual", IF r.code = 200 THEN i ELSE None, r.code)
                    EXCEPT !.calls = r.calls, !.was = StatusOf(rows, i)]
    /\ UNCHANGED <<kind, inflight>>

\* "Summarize All Pending Articles", "Highlight All Pending Snapshots"
BatchGenerate(f) ==
    /\ PendingIds(rows) # {}
    /\ rows' = batch_summarize(kind, rows, Filter(list_active(kind, rows), PendingIds(rows)), f)
    /\ resp' = Resp("batch", None, 0)
    /\ UNCHANGED <<kind, inflight>>

\* the archive button of the export tab, shown with the export text
ArchiveAccepted ==
    /\ AcceptedIds(rows) # {}
    /\ kind = "Snapshots" =>
           \E i \in AcceptedIds(rows) : rows[i].summary \notin {NULL, ""}
    /\ rows' = archive_all(rows, Filter(list_active(kind, rows), AcceptedIds(rows)))
    /\ resp' = Resp("archive_all", None, 0)
    /\ UNCHANGED <<kind, inflight>>

\* the export tab drawn with accepted items: the text it shows
Export ==
    /\ AcceptedIds(rows) # {}
    /\ resp' = [Resp("export", None, 0) EXCEPT !.body = export(kind, rows)]
    /\ UNCHANGED <<kind, rows, inflight>>

\* the bulk buttons of the selection bar: session_state.selected_articles
\* as a list, in any order; a selected id may have lost its row since
BulkUpdate(article_ids, new_status) ==
    /\ kind = "Articles"
    /\ rows' = bulk_update_status(rows, article_ids, new_status)
    /\ resp' = [Resp("bulk", None, 0) EXCEPT !.body = article_ids]
    /\ UNCHANGED <<kind, inflight>>

\* move_article up to its loop: the list is fetched and the order computed
MoveBegin(w, i, dir) ==
    /\ kind = "Articles"
    /\ inflight[w] = Idle
    /\ MovedOrder(rows, i, dir) # <<>>
    /\ inflight' = [inflight EXCEPT ![w] =
                       [Idle EXCEPT !.op = "move", !.index = 1, !.before = rows,
                                    !.ordered_ids = MovedOrder(rows, i, dir)]]
    /\ resp' = Resp("move_begin", i, 0)
    /\ UNCHANGED <<kind, rows>>

\* the worker after one pass of the loop of move_article
Advance(w) ==
    IF inflight[w].index = Len(inflight[w].ordered_ids) THEN Idle
    ELSE [inflight[w] EXCEPT !.index = @ + 1]

\* one pass of the loop: update_article(an_id, position=index), committed
MoveWrite(w) ==
    /\ inflight[w].op = "move"
    /\ rows' = update_item(rows, inflight[w].ordered_ids[inflight[w].index],
                           [position |-> inflight[w].index - 1]).rows
    /\ inflight' = [inflight EXCEPT ![w] = Advance(w)]
    /\ resp' = Resp("move_write", inflight[w].ordered_ids[inflight[w].index], 0)
    /\ UNCHANGED kind

\* one pass of the loop meeting sqlite3.Error: update_article returns None,
\* the loop ignores the result and goes on
MoveWriteFails(w) ==
    /\ inflight[w].op = "move"
    /\ inflight' = [inflight EXCEPT ![w] = Advance(w)]
    /\ resp' = Resp("move_error", inflight[w].ordered_ids[inflight[w].index], 0)
    /\ UNCHANGED <<kind, rows>>

\* DELETE /articles/{id} meeting sqlite3.Error before its commit: the
\* connection is closed uncommitted, delete_article returns False
DeleteFails(i) ==
    /\ kind = "Articles"
    /\ i \in Ids(rows)
    /\ resp' = Resp("delete_error", None, 404)
    /\ UNCHANGED <<kind, rows, inflight>>

\* add_article, add_snapshot up to the INSERT of a url not in the table:
\* the SELECT by url and the SELECT MAX(position), outside a transaction
CreateRead(w, u) ==
    /\ inflight[w] = Idle
    /\ WithUrl(rows, u) = {}
    /\ inflight' = [inflight EXCEPT ![w] =
                       [Idle EXCEPT !.op = "insert", !.url = u,
                                    !.position = IF kind = "Articles"
                                                 THEN MaxAnyPos(rows) + 1
                                                 ELSE MaxActivePos(rows) + 1]]
    /\ resp' = Resp("create_read", None, 0)
    /\ UNCHANGED <<kind, rows>>

\* the INSERT with the position computed before, and its commit; a url
\* inserted meanwhile raises IntegrityError and the function returns None
CreateInsert(w) ==
    /\ inflight[w].op = "insert"
    /\ IF UrlFree(rows, None, inflight[w].url)
       THEN /\ rows' = Insert(rows, NewId(rows), NewRow(inflight[w].url, inflight[w].position))
            /\ resp' = Resp("create", NewId(rows), 201)
       ELSE /\ rows' = rows
            /\ resp' = Resp("create", None, IF kind = "Articles" THEN 409 ELSE 500)
    /\ InBounds(rows')
    /\ inflight' = [inflight EXCEPT ![w] = Idle]
    /\ UNCHANGED kind

\* ---- specifications -------------------------------------------------------
\* create, move up, move down and delete only
OrderNext ==
    \/ \E u \in Urls : Create(u)
    \/ \E i \in IdSpace : Delete(i)
    \/ \E i \in IdSpace, dir \in {"up", "down"} : Move(i, dir)

SpecOrder == Init /\ [][OrderNext]_vars

\* the curation of the list: create, archive, delete, move
CurateNext ==
    \/ \E u \in Urls : Create(u)
    \/ \E i \in IdSpace : PatchStatus(i, "archived")
    \/ \E i \in IdSpace : Delete(i)
    \/ \E i \in IdSpace, dir \in {"up", "down"} : Move(i, dir)

SpecCurate == Init /\ [][CurateNext]_vars

\* the reordering of the article list: both views' move buttons
ReorderNext ==
    \/ \E u \in Urls : Create(u)
    \/ \E i \in IdSpace : Delete(i)
    \/ \E i \in IdSpace, dir \in {"up", "down"} : Move(i, dir)
    \/ \E i \in IdSpace, p \in 0..MaxPos : MoveTo(i, p)

SpecReorder == Init /\ [][ReorderNext]_vars

\* the neighbour swaps of the article list, some of its rows archived
SwapIds == 1..SwapRows

\* the urls posted in these runs: a url of the table, or one new url
SwapUrls(t) == {t[i].url : i \in Ids(t)} \cup {NewId(t)}

SwapNext ==
    \/ \E u \in SwapUrls(rows) :
           kind = "Articles" /\ Create(u) /\ Ids(rows') \subseteq SwapIds
    \/ \E i \in SwapIds : PatchStatus(i, "archived")
    \/ \E i \in SwapIds, dir \in {"up", "down"} : Move(i, dir)

SpecSwap == Init /\ [][SwapNext]_vars

\* the list among created, archived and deleted rows
ListNext ==
    \/ \E u \in SwapUrls(rows) : Create(u) /\ Ids(rows') \subseteq SwapIds
    \/ \E i \in SwapIds : PatchStatus(i, "archived")
    \/ \E i \in SwapIds : Delete(i)
    \/ List

SpecList == Init /\ [][ListNext]_vars

\* acquisition and generation, from the scraper or from manual content
GenIds == 1..GenRows

\* the statuses a failed acquisition or generation leaves; a snapshot gets
\* one by a PATCH only, no snapshot endpoint writes them
FailedStatuses == {"scraping_failed", "ai_failed", "content_failed"}

GenNext ==
    \/ \E u \in SwapUrls(rows) : Create(u) /\ Ids(rows') \subseteq GenIds
    \/ \E i \in GenIds, s \in FailedStatuses :
           kind = "Snapshots" /\ PatchStatus(i, s)
    \/ \E i \in GenIds, scrape \in ScrapeOutcomes \ {"ok"} : Generate(i, scrape, "ok")
    \/ \E i \in GenIds, ai \in AiOutcomes : Generate(i, "ok", ai)
    \/ \E i \in GenIds, manual_content \in {"", " "} :
           GenerateManual(i, manual_content, "ok")
    \/ \E i \in GenIds, manual_content \in ManualInputs \ {"", " "}, ai \in AiOutcomes :
           GenerateManual(i, manual_content, ai)

SpecGen == Init /\ [][GenNext]_vars

\* every operation that names an id, on ids with and without a row
NamedIds == 1..NamedRows

NamedNext ==
    \/ \E u \in SwapUrls(rows) : Create(u) /\ Ids(rows') \subseteq NamedIds
    \/ \E i \in NamedIds : Get(i)
    \/ \E i \in NamedIds : PatchStatus(i, "accepted")
    \/ \E i \in NamedIds : Delete(i)
    \/ \E i \in NamedIds, scrape \in {"ok", "none"} : Generate(i, scrape, "ok")
    \/ \E i \in NamedIds, manual_content \in {"", "a b"} :
           GenerateManual(i, manual_content, "ok")

SpecNamed == Init /\ [][NamedNext]_vars

\* updates of one and of several fields, each followed by reads
UpdIds == 1..UpdRows

UpdateNext ==
    \/ \E u \in SwapUrls(rows) : Create(u) /\ Ids(rows') \subseteq UpdIds
    \/ \E i \in UpdIds, upd \in UpdateInputs : Patch(i, upd)
    \/ \E i \in UpdIds, u \in SwapUrls(rows) : PatchUrl(i, u)
    \/ \E i \in UpdIds : Get(i)

SpecUpdate == Init /\ [][UpdateNext]_vars

\* the export of accepted items, edited and reordered
ExportNext ==
    \/ \E u \in SwapUrls(rows) : Create(u) /\ Ids(rows') \subseteq UpdIds
    \/ \E i \in UpdIds, upd \in UpdateInputs : Patch(i, upd)
    \/ \E i \in UpdIds, dir \in {"up", "down"} : Move(i, dir)
    \/ Export

SpecExport == Init /\ [][ExportNext]_vars

\* the batch buttons over rows created, accepted and deleted
Selections ==
    {ids \in UNION {[1..n -> UpdIds] : n \in 1..UpdRows} :
        \A a, b \in DOMAIN ids : a # b => ids[a] # ids[b]}

BatchNext ==
    \/ \E u \in SwapUrls(rows) : Create(u) /\ Ids(rows') \subseteq UpdIds
    \/ \E i \in UpdIds : PatchStatus(i, "accepted")
    \/ \E i \in UpdIds : Delete(i)
    \/ \E f \in [PendingIds(rows) -> BatchOutcomes] : BatchGenerate(f)
    \/ ArchiveAccepted
    \/ \E article_ids \in Selections, new_status \in {"accepted", "archived"} :
           BulkUpdate(article_ids, new_status)

SpecBatch == Init /\ [][BatchNext]_vars

\* no worker is within an operation
Quiet == \A w \in Workers : inflight[w] = Idle

\* reads of the list while the admin application reorders it
ReadNext ==
    \/ \E u \in SwapUrls(rows) : Quiet /\ Create(u) /\ Ids(rows') \subseteq SwapIds
    \/ \E i \in SwapIds : Quiet /\ Delete(i)
    \/ \E i \in SwapIds, dir \in {"up", "down"} : MoveBegin("first", i, dir)
    \/ MoveWrite("first")
    \/ List

SpecRead == Init /\ [][ReadNext]_vars

\* store errors within a reorder and within a delete
AbortNext ==
    \/ \E u \in SwapUrls(rows) : Quiet /\ Create(u) /\ Ids(rows') \subseteq SwapIds
    \/ \E i \in SwapIds : Quiet /\ Delete(i)
    \/ \E i \in SwapIds : Quiet /\ DeleteFails(i)
    \/ \E i \in SwapIds, dir \in {"up", "down"} : MoveBegin("first", i, dir)
    \/ MoveWrite("first")
    \/ MoveWriteFails("first")

SpecAbort == Init /\ [][AbortNext]_vars

\* creates of the two workers, their store steps interleaved
RaceNext ==
    \/ \E w \in Workers, u \in Urls : CreateRead(w, u)
    \/ \E w \in Workers : CreateInsert(w)
    \/ List

SpecRace == Init /\ [][RaceNext]_vars

\* the store operations on a small table: create, update of the url,
\* archive, delete
StoreIds == 1..StoreRows

StoreNext ==
    \/ \E u \in 1..StoreUrl : Create(u) /\ Ids(rows') \subseteq StoreIds
    \/ \E i \in StoreIds : PatchStatus(i, "archived")
    \/ \E i \in StoreIds, u \in 1..StoreUrl : PatchUrl(i, u)
    \/ \E i \in StoreIds : Delete(i)

SpecStore == Init /\ [][StoreNext]_vars

\* the lifecycle: create, status updates, generation, batches
LifeIds == 1..LifeRows

LifeNext ==
    \/ \E u \in 1..LifeUrl : Create(u) /\ Ids(rows') \subseteq LifeIds
    \/ \E i \in LifeIds, s \in StatusInputs(kind) : PatchStatus(i, s)
    \/ \E i \in LifeIds, scrape \in ScrapeOutcomes, ai \in AiOutcomes :
           Generate(i, scrape, ai)
    \/ \E i \in LifeIds, manual_content \in ManualInputs, ai \in AiOutcomes :
           GenerateManual(i, manual_content, ai)
    \/ \E f \in [PendingIds(rows) -> BatchOutcomes] : BatchGenerate(f)
    \/ ArchiveAccepted

SpecLife == Init /\ [][LifeNext]_vars

\* ---- properties ------------------------------------------------------------
\* the positions of the non-archived rows are exactly 1..N
Dense(t) == {t[i].position : i \in ActiveIds(t)} = 1..Cardinality(ActiveIds(t))

\* the rows active in both tables keep their relative order
SameOrder(t, t2) ==
    \A i, j \in ActiveIds(t) \cap ActiveIds(t2) :
        t[i].position < t[j].position => t2[i].position < t2[j].position

ActiveWithUrl(t, u) == {i \in ActiveIds(t) : t[i].url = u}

ArchivedWithUrl(t, u) == {i \in Ids(t) : t[i].url = u /\ t[i].status = "archived"}

\* C1: after every create, move up, move down or delete, the positions of
\* the non-archived items are exactly {1..N}, without duplicates or gaps.
C1_PositionsDense == Dense(rows)

\* C2: a create whose url is that of a non-archived item is rejected (None,
\* 409 for an article) and changes nothing: the table is the same and still
\* holds exactly one row for that url.
C2_ActiveUrlConflict ==
    [][\A u \in Urls :
         (Create(u) /\ ActiveWithUrl(rows, u) # {}) =>
             /\ rows' = rows
             /\ resp'.id = None
             /\ kind = "Articles" => resp'.code = 409
             /\ Cardinality(WithUrl(rows', u)) = 1]_vars

\* a create was just rejected as a conflict
C2_Witness ==
    /\ resp.op = "create"
    /\ resp.id = None
    /\ \E i \in ActiveIds(rows) : TRUE

\* C3: a create whose url is that of an archived item resurrects that row:
\* the returned id is the archived row's id, its status is pending and no
\* row is added.
C3_ArchivedUrlResurrects ==
    [][\A u \in Urls : \A e \in ArchivedWithUrl(rows, u) :
         Create(u) =>
             /\ resp'.id = e
             /\ resp'.code = 201
             /\ rows'[e].status = "pending"
             /\ Ids(rows') = Ids(rows)]_vars

\* a create returned a row that is older than another row: it was resurrected
C3_Witness ==
    /\ resp.op = "create"
    /\ resp.id # None
    /\ \E j \in Ids(rows) : j > resp.id

\* C4: every successful create gives the item position max(positions of the
\* non-archived items) + 1, or 1 when there is none, and changes no other
\* item's position.
C4_CreateAppends ==
    [][\A u \in Urls :
         (Create(u) /\ resp'.id # None) =>
             /\ rows'[resp'.id].position = MaxActivePos(rows) + 1
             /\ \A j \in Ids(rows) \ {resp'.id} :
                    rows'[j].position = rows[j].position]_vars

\* C5: no two non-archived items have the same url.
C5_ActiveUrlsUnique ==
    \A i, j \in ActiveIds(rows) : rows[i].url = rows[j].url => i = j

\* an update of the url was just refused although the row exists
C5_Witness ==
    /\ resp.op = "patch"
    /\ resp.code = 404
    /\ Ids(rows) = StoreIds
    /\ Cardinality(ActiveIds(rows)) >= 2

\* C9: delete(id) of an existing item removes the row and leaves the
\* remaining non-archived items at positions exactly 1..N in their previous
\* relative order, whatever positions they held before.
C9_DeleteReindexes ==
    [][\A i \in Ids(rows) :
         Delete(i) =>
             /\ i \notin Ids(rows')
             /\ Dense(rows')
             /\ SameOrder(rows, rows')]_vars

\* C10: archiving an item leaves the remaining non-archived items at
\* positions exactly 1..N in their previous relative order.
C10_ArchiveReindexes ==
    [][\A i \in ActiveIds(rows) :
         PatchStatus(i, "archived") =>
             /\ Dense(rows')
             /\ SameOrder(rows, rows')]_vars

\* C6: the status of every item is one of pending, scraping_failed,
\* ai_failed, content_failed, summarized/highlighted, accepted, archived.
C6_StatusEnumerated == \A i \in Ids(rows) : rows[i].status \in Enumerated

\* C7: an archived item becomes non-archived only by a create of its url;
\* no status update and no generation request moves it out of archived.
C7_ArchivedIsTerminal ==
    [][\A i \in Ids(rows) \cap Ids(rows') :
         (rows[i].status = "archived" /\ rows'[i].status # "archived") =>
             resp'.op = "create"]_vars

\* C8: an item becomes accepted only from summarized (article) or
\* highlighted (snapshot).
C8_AcceptOnlyGenerated ==
    [][\A i \in Ids(rows) \cap Ids(rows') :
         (rows'[i].status = "accepted" /\ rows[i].status # "accepted") =>
             rows[i].status = (IF kind = "Articles" THEN "summarized" ELSE "highlighted")]_vars

\* new_position clamped into [1, n]
Clamp(p, n) == IF p < 1 THEN 1 ELSE IF p > n THEN n ELSE p

\* t2 is t after item i moved to position q: i holds q, the items between
\* the old and the new position shifted by one, the others kept
MovedTo(t, t2, i, q) ==
    LET old == t[i].position IN
    /\ Ids(t2) = Ids(t)
    /\ t2[i].position = q
    /\ \A j \in Ids(t) \ {i} :
           t2[j].position =
               IF j \in ActiveIds(t) /\ old < t[j].position /\ t[j].position <= q
               THEN t[j].position - 1
               ELSE IF j \in ActiveIds(t) /\ q <= t[j].position /\ t[j].position < old
                    THEN t[j].position + 1
                    ELSE t[j].position

\* C11: a move of an active item to new_position gives it that position
\* clamped into [1, number of active items], shifts by one exactly the items
\* between the old and the new position and keeps every other position; up
\* and down are the moves to the current position minus and plus one.
C11_MoveClamps ==
    [][\A i \in ActiveIds(rows) :
         LET n == Cardinality(ActiveIds(rows))
             cur == rows[i].position IN
         /\ \A p \in 0..MaxPos :
                MoveTo(i, p) => MovedTo(rows, rows', i, Clamp(p, n))
         /\ Move(i, "up") => MovedTo(rows, rows', i, Clamp(cur - 1, n))
         /\ Move(i, "down") => MovedTo(rows, rows', i, Clamp(cur + 1, n))]_vars

\* C12: move up / move down exchanges the item with its neighbour in the
\* active order and keeps every other place of the list; move up of the
\* first item, move down of the last and a move of an id that is not in the
\* active list leave the table as it was.
C12_SwapWithNeighbour ==
    [][resp'.op \in {"up", "down"} =>
         LET i == resp'.id
             dir == resp'.op
             l == fetch_all(rows)
             l2 == fetch_all(rows')
             d == IF dir = "up" THEN -1 ELSE 1 IN
         Move(i, dir) =>
             IF i \in ActiveIds(rows)
                /\ IndexOf(l, i) + d \in 1..Len(l)
             THEN LET cur == IndexOf(l, i) IN
                  /\ Len(l2) = Len(l)
                  /\ l2[cur + d] = i
                  /\ l2[cur] = l[cur + d]
                  /\ \A n \in (1..Len(l)) \ {cur, cur + d} : l2[n] = l[n]
                  /\ \A j \in Ids(rows) \ ActiveIds(rows) : rows'[j] = rows[j]
             ELSE rows' = rows]_vars

\* a swap was just written in a list of three articles
C12_Witness ==
    /\ resp.op \in {"up", "down"}
    /\ Cardinality(ActiveIds(rows)) = 3
    /\ \E i \in ActiveIds(rows) : rows[i].position = 0

\* C13: the list GET /articles and GET /snapshots return holds exactly the
\* items whose status is not archived, each once, in ascending position
\* order; an archived or deleted item is not in it.
C13_ListActive ==
    resp.op = "list" =>
        LET l == resp.body IN
        /\ {l[n] : n \in DOMAIN l} = {i \in Ids(rows) : rows[i].status # "archived"}
        /\ \A m, n \in DOMAIN l : m # n => l[m] # l[n]
        /\ \A m, n \in DOMAIN l : m < n => rows[l[m]].position <= rows[l[n]].position

\* a list of two items was returned while another row is archived
C13_Witness ==
    /\ resp.op = "list"
    /\ Len(resp.body) = 2
    /\ \E i \in Ids(rows) : rows[i].status = "archived"

\* C14: when the scraper fails for an article, POST /summarize leaves the
\* article scraping_failed with the failure reason as its summary, keeps
\* its original_content and does not call the generation service.
C14_ScrapingFailed ==
    [][(kind = "Articles" /\ resp'.op = "generate") =>
         \A i \in Ids(rows), scrape \in ScrapeOutcomes \ {"ok"}, ai \in AiOutcomes :
             Generate(i, scrape, ai) =>
                 /\ rows'[i].status = "scraping_failed"
                 /\ rows'[i].summary = "Scraping error"
                 /\ rows'[i].original_content = rows[i].original_content
                 /\ "ai" \notin resp'.calls
                 /\ \A j \in Ids(rows) \ {i} : rows'[j] = rows[j]]_vars

\* the scraper just failed for an article that was summarized before: it
\* still holds the content of the earlier scrape
C14_Witness ==
    /\ kind = "Articles"
    /\ resp.op = "generate"
    /\ resp.was = "summarized"
    /\ resp.calls = {"scraper"}
    /\ \E i \in Ids(rows) : /\ rows[i].status = "scraping_failed"
                            /\ rows[i].original_content = "scraped"

\* the statuses of a generated item
Generated == {"summarized", "highlighted"}

\* C15: when the scrape succeeds and the generation call fails, the item
\* becomes ai_failed with the error text as its summary; no item is
\* summarized (highlighted) with an error message as its summary.
C15_GenerationFailed ==
    [][resp'.op = "generate" =>
         \A i \in Ids(rows), ai \in {"error_text", "raises"} :
             Generate(i, "ok", ai) =>
                 /\ rows'[i].status = "ai_failed"
                 /\ rows'[i].summary \in {"AI service error", "ai_error_text"}
                 /\ \A j \in Ids(rows') :
                        ~(rows'[j].status \in Generated
                          /\ rows'[j].summary = "ai_error_text")]_vars

\* C16: a generation answer without the headline or the body field is a
\* failure: the article does not become summarized and no placeholder text
\* is stored as its summary.
C16_MissingFieldsFail ==
    [][(kind = "Articles" /\ resp'.op \in {"generate", "manual"}) =>
         \A i \in Ids(rows) :
             (\/ Generate(i, "ok", "missing_fields")
              \/ \E manual_content \in ManualInputs :
                     /\ strip(manual_content) # ""
                     /\ GenerateManual(i, manual_content, "missing_fields")) =>
                 /\ rows'[i].status # "summarized"
                 /\ rows'[i].summary # "Could not generate summary body."]_vars

\* C17: empty or whitespace-only manual content is rejected with 400 and
\* the table stays as it was.
C17_EmptyManualRejected ==
    [][resp'.op = "manual" =>
         \A i \in Ids(rows), manual_content \in {"", " "}, ai \in AiOutcomes :
             GenerateManual(i, manual_content, ai) =>
                 /\ resp'.code = 400
                 /\ rows' = rows]_vars

\* C18: from scraping_failed, ai_failed or content_failed, manual content
\* that is not blank and whose generation succeeds leaves the item
\* summarized (highlighted) with the stripped text as its original_content,
\* and the scraper is not called.
C18_ManualResubmission ==
    [][resp'.op = "manual" =>
         \A i \in Ids(rows), manual_content \in ManualInputs \ {"", " "} :
             (/\ rows[i].status \in FailedStatuses
              /\ GenerateManual(i, manual_content, "ok")) =>
                 /\ rows'[i].status =
                        (IF kind = "Articles" THEN "summarized" ELSE "highlighted")
                 /\ manual_content = " a " => rows'[i].original_content = "a"
                 /\ manual_content = "a b" => rows'[i].original_content = "a b"
                 /\ rows'[i].summary = "ai_summary"
                 /\ "scraper" \notin resp'.calls]_vars

\* manual content was just accepted for an item that had failed
C18_Witness ==
    /\ resp.op = "manual"
    /\ resp.code = 200
    /\ resp.was \in FailedStatuses
    /\ resp.calls = {"ai"}
    /\ \E i \in Ids(rows) : /\ rows[i].status \in Generated
                            /\ rows[i].original_content = "a b"
                            /\ rows[i].summary = "ai_summary"

C20_NotFound ==
    [][/\ \A i \in NamedIds \ Ids(rows) :
            (\/ resp'.op = "get" /\ Get(i)
             \/ resp'.op = "patch" /\ PatchStatus(i, "accepted")
             \/ resp'.op = "delete" /\ Delete(i)
             \/ /\ resp'.op = "generate"
                /\ \E scrape \in ScrapeOutcomes : Generate(i, scrape, "ok")
             \/ /\ resp'.op = "manual"
                /\ \E manual_content \in ManualInputs :
                       GenerateManual(i, manual_content, "ok")) =>
                /\ resp'.code = 404
                /\ resp'.id = None
                /\ rows' = rows
       /\ resp'.op = "delete" =>
              \A i \in Ids(rows) : Delete(i) => i \notin Ids(rows')]_vars

\* a request for an id without a row was just answered 404 beside a row
\* that was generated before
C20_Witness ==
    /\ resp.code = 404
    /\ resp.op \in {"get", "patch", "delete", "generate", "manual"}
    /\ Cardinality(Ids(rows)) = 1
    /\ \E i \in Ids(rows) : rows[i].status \in Generated

RECURSIVE Joined(_, _)
Joined(sections, sep) ==
    IF Len(sections) <= 1 THEN sections
    ELSE <<Head(sections), sep>> \o Joined(Tail(sections), sep)

\* the summaries of the accepted rows of t in list order
RECURSIVE Sections(_, _)
Sections(t, ids) ==
    IF ids = <<>> THEN <<>>
    ELSE <<format_summary_for_export(t[Head(ids)])>> \o Sections(t, Tail(ids))

\* C22: the article export text is the summaries of exactly the accepted
\* items in ascending position order, joined by the separator, which
\* appears between consecutive items only.
C22_ExportJoined ==
    (kind = "Articles" /\ resp.op = "export") =>
        resp.body = Joined(Sections(rows, Filter(fetch_all(rows), AcceptedIds(rows))),
                           Separator)

\* C23: an accepted item whose summary or highlight is null or empty
\* contributes no empty section to the export text, for articles and for
\* snapshots.
C23_NoEmptySection ==
    resp.op = "export" => \A n \in DOMAIN resp.body : resp.body[n] # ""

\* C24: a batch operation attempts every one of its items: a selected id
\* without a row fails alone and every selected id that has a row takes the
\* new status; every pending article of a batch summarization leaves
\* pending; every accepted item of an archive batch is archived.
C24_BatchAttemptsAll ==
    [][/\ resp'.op = "bulk" =>
             \A new_status \in {"accepted", "archived"} :
                 BulkUpdate(resp'.body, new_status) =>
                     \A n \in DOMAIN resp'.body :
                         resp'.body[n] \in Ids(rows) =>
                             rows'[resp'.body[n]].status = new_status
       /\ (resp'.op = "batch" /\ kind = "Articles") =>
             \A i \in PendingIds(rows) : rows'[i].status # "pending"
       /\ resp'.op = "archive_all" =>
             \A i \in AcceptedIds(rows) : rows'[i].status = "archived"]_vars

\* C25: a read of the list taken while a move is under way finds the
\* positions of the non-archived rows to be exactly 1..N, no position
\* twice and none missing.
C25_ReorderAtomic ==
    (resp.op = "list" /\ \E w \in Workers : inflight[w].op = "move") => Dense(rows)

\* C26: a store error in the middle of an operation aborts the operation
\* and leaves the table exactly as it was when the operation began, for a
\* reorder as for a delete with its re-index.
C26_ErrorAborts ==
    [][/\ resp'.op = "move_error" =>
             \A w \in Workers :
                 MoveWriteFails(w) => rows' = inflight[w].before /\ inflight'[w] = Idle
       /\ resp'.op = "delete_error" => rows' = rows]_vars

\* C29: two creates of different urls whose store steps interleave end
\* with two distinct positions: no two non-archived rows hold the same
\* position.
C29_ConcurrentCreates ==
    \A i, j \in ActiveIds(rows) : i # j => rows[i].position # rows[j].position

\* C27: a failed acquisition during POST /highlight leaves the snapshot
\* with status scraping_failed, a failed generation with status ai_failed,
\* each with a reason as its highlight; a failed generation is never
\* stored with status highlighted.
C27_SnapshotFailureRecorded ==
    [][(kind = "Snapshots" /\ resp'.op = "generate") =>
         \A i \in Ids(rows) :
             /\ \A scrape \in ScrapeOutcomes \ {"ok"} :
                    Generate(i, scrape, "ok") =>
                        /\ rows'[i].status = "scraping_failed"
                        /\ rows'[i].summary \notin {NULL, ""}
             /\ \A ai \in {"error_text", "raises"} :
                    Generate(i, "ok", ai) =>
                        /\ rows'[i].status = "ai_failed"
                        /\ rows'[i].summary \notin {NULL, ""}]_vars

\* C28: when the scraper returns no content, POST /summarize leaves the
\* article with status scraping_failed and summary 'No content found at
\* URL.' and answers 400.
C28_NoContentOnce ==
    [][(kind = "Articles" /\ resp'.op = "generate") =>
         \A i \in Ids(rows) :
             Generate(i, "none", "ok") =>
                 /\ rows'[i].status = "scraping_failed"
                 /\ rows'[i].summary = "No content found at URL."
                 /\ resp'.code = 400]_vars

\* C30: deleting an archived row, whatever position it retained, leaves
\* the position of every non-archived row unchanged when those positions
\* were 1..N, for snapshots as for articles.
C30_DeleteArchivedKeepsPositions ==
    [][resp'.op = "delete" =>
         \A i \in Ids(rows) :
             (Delete(i) /\ rows[i].status = "archived" /\ Dense(rows)) =>
                 \A j \in ActiveIds(rows) : rows'[j].position = rows[j].position]_vars

====
